---- MODULE Spec2Model ----
(***************************************************************************)
(* JsonlSubprocessEndpoint (base_core/framework/json/json_endpoint.py):    *)
(* the child process with its two pipes, the Pending-Request Table, the    *)
(* request() callers, the produce() reader and stop().  Every locked       *)
(* region of the code is one atomic action; statements outside a lock      *)
(* that touch shared state are actions of their own.                       *)
(* DeviceService (base_core/framework/json/device_service.py) on top of    *)
(* it: start(), stop(), send(), request_async() under its lock, and the    *)
(* handler table with the stream worker's dispatch and the stream          *)
(* callbacks.  JsonlStdioAppBase (json_process_base.py): the child's       *)
(* reply().                                                                *)
(***************************************************************************)
EXTENDS Integers, Sequences, FiniteSets, TLC

MaxReq == 2      \* request() calls issued in one behaviour
MaxLines == 1    \* lines the children write to standard output in one behaviour (Spec)
PairLines == 2   \* the same, in the two-replies scenario (PairSpec)
StreamLines == 3 \* the same, where only the reader runs (StreamSpec)
MaxProcs == 1    \* children spawned in one behaviour (start() calls that succeed)
LifeProcs == 2   \* the same, where stop() followed by start() is explored (LifeSpec, SvcSpec)

ReqIds == 1..MaxReq      \* call r stamps the fresh uuid4 number r
Procs == 1..LifeProcs    \* Popen objects; 0 stands for None
Runs == 1..MaxProcs      \* produce() runs: run k is the one started on child k
Handles == 1..LifeProcs  \* StreamHandle objects: handle h is the stream over child h
MaxTypes == 2    \* distinct strings used as message types (RouterSpec)
MaxHandlers == 2 \* distinct handler callables (RouterSpec)
MaxRegs == 3     \* register/unregister/clear calls explored (RouterSpec)
MaxMsgs == 2     \* messages handed to the router (RouterSpec)
MaxWriters == 3  \* concurrent send() calls followed through their write (WriteSpec)
MsgTypes == 1..MaxTypes
Writers == 1..MaxWriters
HandlerIds == 1..MaxHandlers

(* ---------------- JSON values on the wire ---------------- *)

\* msg.get(reply_to_field): the field is absent, holds a non-string, or a string
Absent == [t |-> "absent", v |-> 0]
NonStr == [t |-> "number", v |-> 0]
Str(id) == [t |-> "str", v |-> id]

\* one line of the child's stdout: its text class, its reply_to field and its
\* position n on the wire (which makes every line a distinct payload)
Line(kind, rt, n) == [kind |-> kind, rt |-> rt, n |-> n]

LineKinds == {"blank", "badjson", "nonobject", "object"}

\* line.strip() is empty
IsBlank(line) == line.kind = "blank"
\* json.loads(line) raises JSONDecodeError
IsBadJson(line) == line.kind = "badjson"
\* mutant of IsDict: the isinstance check is missing, any decoded value passes
AnyJson(line) == line.kind \in {"object", "nonobject"}

\* isinstance(msg, dict)
IsDict(line) == line.kind = "object"
\* isinstance(reply_to, str)
IsStr(rt) == rt.t = "str"

\* a non-response message as the router sees it: its "type" field (absent, a
\* non-string, or the string naming type t) and the rest of its content
Msg(tf, v) == [type |-> tf, value |-> v]
NoMsg == Msg(Absent, 0)
TypeFields == {Absent, NonStr} \cup {Str(t) : t \in MsgTypes}

\* _Pending.response: None, a message, or a synthetic failure payload
NoneResp == Line("none", Absent, 0)
StoppedPayload == Line("stopped", Absent, 0)   \* {"ok": False, "error": "endpoint stopped"}
ClosedPayload == Line("closed", Absent, 0)     \* {"ok": False, "error": "stdout closed"}

\* _Pending(event=threading.Event()), response=None
NewPending == [event |-> FALSE, response |-> NoneResp]

VARIABLES
    proc,       \* self._proc: 0 (None) or the current child
    nprocs,     \* children spawned so far
    status,     \* status[p]: "none" | "running" | "exited"  (proc.poll())
    stdout,     \* stdout[p]: lines written by child p and not yet read
    stdin,      \* stdin[p]: request ids of the lines written to child p's stdin
    nlines,     \* lines written by the children so far
    pending,    \* keys of self._pending
    slot,       \* slot[id]: the _Pending object created by call id
    pc,         \* pc[r]: position of request() call r
    sproc,      \* sproc[r]: the local `proc` of send() inside call r
    outcome,    \* outcome[r]: how call r ended
    result,     \* result[r]: the dict returned by call r
    rpc,        \* rpc[k]: position of produce() run k
    rproc,      \* rproc[k]: the local `proc` of run k
    rmsg,       \* rmsg[k]: the local `msg` of run k
    rpend,      \* rpend[k]: the local `pending` of run k (0: None)
    forward,    \* forward[k]: forward_responses of run k
    stopEv,     \* stopEv[k]: the threading.Event `stop` handed to run k
    yielded,    \* yielded[k]: messages run k has yielded, in order
    stop_pc,    \* position of the stop() caller: "idle" | "called" | "resolve" | "terminate"
    stop_proc,  \* the local `proc` of stop()
    nset,       \* history: nset[id] = event.set() calls on slot id so far (2: two or more)
    parsed,     \* history: parsed[k] = mappings run k parsed, each with the entry its
                \* lookup returned and whether that entry's caller was blocked in wait
    stopHit,    \* history: calls blocked in wait when stop() resolved their entry
    eofHit,     \* history: calls blocked in wait when produce's cleanup resolved their entry
    start_out,  \* how the last start() call ended: "none" | "ok" | "already_running"
    stopped,    \* history: a stop() call has taken a process handle
    snd_pc,     \* position of the caller of send(): "idle" | "write" | "done"
    snd_proc,   \* the local `proc` of that send()
    snd_active, \* history: a child was running when that send() read self._proc
    snd_out,    \* how that send() ended: "none" | "ok" | "not_running" | "broken_pipe"
    handle,     \* DeviceService._handle: 0 (None) or the StreamHandle held
    nhandles,   \* StreamHandles io.stream() has returned so far
    hstop,      \* hstop[h]: stop_event of StreamHandle h is set
    svc_pc,     \* position of the thread holding DeviceService._lock ("idle": lock free)
    svc_h,      \* the local `handle` of DeviceService.stop()
    svc_out,    \* how the last DeviceService.start() ended: "none" | "started" | "noop"
    ss_out,     \* how DeviceService.send() ended: "none" | "not_running" | "sent"
    ra_pc,      \* position of the caller of request_async(): "idle" | "checked" | "done"
    ra_out,     \* how request_async() ended: "none" | "not_running" | "scheduled"
    ra_held,    \* history: the service held a StreamHandle when io.run() was called
    handlers,   \* DeviceService._handlers: message type -> handler, 0 for no entry
    regs,       \* history: the register/unregister/clear calls made, in order
    d_pc,       \* position of the stream worker in _on_stream_message:
                \* "idle" | "lookup" | "locked" | "call" | "handler"
    d_msg,      \* the message being dispatched
    d_h,        \* the handler reference copied under the lock (0 for None)
    calls,      \* the handler invocations made, in order: handler and argument
    expected,   \* history: the invocations due, decided at lookup time from regs
    nmsgs,      \* number of messages handed to _on_stream_message
    d_lock,     \* the stream worker holds DeviceService._lock
    d_at,       \* history: number of registry calls made when the handler was entered
    cb_pc,      \* position of the task runner's thread in _on_stream_error /
                \* _on_stream_complete: "idle" | "stopping" | "returned"
    cb_kind,    \* which of the two callbacks it is in: "none" | "error" | "complete"
    ch_read,    \* ch_read[p]: lines of its stdin child p has handed to on_message
    emitted,    \* history: the reply() calls made, with arguments and emitted line
    w_pc,       \* w_pc[w]: position of send() call w, followed through its write:
                \* "idle" | "encoded" | "locked" | "mid" | "done" | "raised" | "failed"
    w_proc,     \* w_proc[w]: the proc it captured (0 for None)
    wlock,      \* holder of _write_lock (0: free)
    wire        \* wire[p]: the parts of lines that reached the stdin pipe of child p

vars == <<proc, nprocs, status, stdout, stdin, nlines, pending, slot, pc, sproc,
          outcome, result, rpc, rproc, rmsg, rpend, forward, stopEv, yielded,
          stop_pc, stop_proc, nset, parsed, stopHit, eofHit,
          start_out, stopped, snd_pc, snd_proc, snd_active, snd_out,
          handle, nhandles, hstop, svc_pc, svc_h, svc_out, ss_out, ra_pc, ra_out, ra_held,
          handlers, regs, d_pc, d_msg, d_h, calls, expected, nmsgs, d_lock, d_at,
          cb_pc, cb_kind, ch_read, emitted, w_pc, w_proc, wlock, wire>>

procVars == <<proc, nprocs, status, stdout, stdin, nlines>>
tableVars == <<pending, slot>>
reqVars == <<pc, sproc, outcome, result>>
runVars == <<rpc, rproc, rmsg, rpend, forward, stopEv, yielded>>
stopVars == <<stop_pc, stop_proc>>
histVars == <<nset, parsed, stopHit, eofHit>>
lifeVars == <<start_out, stopped>>
sendVars == <<snd_pc, snd_proc, snd_active, snd_out>>
svcVars == <<handle, nhandles, hstop, svc_pc, svc_h, svc_out, ss_out, ra_pc, ra_out, ra_held>>
routerVars == <<handlers, regs, d_pc, d_msg, d_h, calls, expected, nmsgs, d_lock, d_at>>
cbVars == <<cb_pc, cb_kind>>
childVars == <<ch_read, emitted>>
writeVars == <<w_pc, w_proc, wlock, wire>>
extVars == <<cbVars, childVars, writeVars>>
outerVars == <<sendVars, svcVars, routerVars, extVars>>

Init ==
    /\ proc = 0
    /\ nprocs = 0
    /\ status = [p \in Procs |-> "none"]
    /\ stdout = [p \in Procs |-> <<>>]
    /\ stdin = [p \in Procs |-> <<>>]
    /\ nlines = 0
    /\ pending = {}
    /\ slot = [id \in ReqIds |-> NewPending]
    /\ pc = [r \in ReqIds |-> "idle"]
    /\ sproc = [r \in ReqIds |-> 0]
    /\ outcome = [r \in ReqIds |-> "none"]
    /\ result = [r \in ReqIds |-> NoneResp]
    /\ rpc = [k \in Runs |-> "idle"]
    /\ rproc = [k \in Runs |-> 0]
    /\ rmsg = [k \in Runs |-> NoneResp]
    /\ rpend = [k \in Runs |-> 0]
    /\ forward = [k \in Runs |-> FALSE]
    /\ stopEv = [k \in Runs |-> FALSE]
    /\ yielded = [k \in Runs |-> <<>>]
    /\ stop_pc = "idle"
    /\ stop_proc = 0
    /\ nset = [id \in ReqIds |-> 0]
    /\ parsed = [k \in Runs |-> <<>>]
    /\ stopHit = {}
    /\ eofHit = {}
    /\ start_out = "none"
    /\ stopped = FALSE
    /\ snd_pc = "idle"
    /\ snd_proc = 0
    /\ snd_active = FALSE
    /\ snd_out = "none"
    /\ handle = 0
    /\ nhandles = 0
    /\ hstop = [h \in Handles |-> FALSE]
    /\ handlers = [t \in MsgTypes |-> 0]
    /\ regs = <<>>
    /\ d_pc = "idle"
    /\ d_msg = NoMsg
    /\ d_h = 0
    /\ calls = <<>>
    /\ expected = <<>>
    /\ nmsgs = 0
    /\ d_lock = FALSE
    /\ d_at = 0
    /\ cb_pc = "idle"
    /\ cb_kind = "none"
    /\ ch_read = [p \in Procs |-> 0]
    /\ emitted = <<>>
    /\ w_pc = [w \in Writers |-> "idle"]
    /\ w_proc = [w \in Writers |-> 0]
    /\ wlock = 0
    /\ wire = [p \in Procs |-> <<>>]
    /\ svc_pc = "idle"
    /\ svc_h = 0
    /\ svc_out = "none"
    /\ ss_out = "none"
    /\ ra_pc = "idle"
    /\ ra_out = "none"
    /\ ra_held = FALSE

(* ---------------- lifecycle: start(), stop() ---------------- *)

\* is_running(), lines 96-97: self._proc is not None and self._proc.poll() is None
IsRunning == proc # 0 /\ status[proc] = "running"

\* mutant of Start: the guard of lines 59-60 is missing
StartUnguarded(max) ==
    /\ nprocs < max
    /\ nprocs' = nprocs + 1
    /\ proc' = nprocs + 1
    /\ status' = [status EXCEPT ![nprocs + 1] = "running"]
    /\ start_out' = "ok"
    /\ UNCHANGED <<stdout, stdin, nlines, tableVars, reqVars, runVars, stopVars, histVars, stopped, outerVars>>

\* start(), json_endpoint.py:58-73, with self._proc None: spawns a child (while
\* fewer than `max` children have been spawned)
Start(max) ==
    /\ proc = 0
    /\ nprocs < max
    /\ nprocs' = nprocs + 1
    /\ proc' = nprocs + 1
    /\ status' = [status EXCEPT ![nprocs + 1] = "running"]
    /\ start_out' = "ok"
    /\ UNCHANGED <<stdout, stdin, nlines, tableVars, reqVars, runVars, stopVars, histVars, stopped, outerVars>>

\* start() with self._proc not None: RuntimeError("Subprocess already running.")
StartAlreadyRunning ==
    /\ proc # 0
    /\ start_out' = "already_running"
    /\ UNCHANGED <<procVars, tableVars, reqVars, runVars, stopVars, histVars, stopped, outerVars>>

\* mutant of StopTake: self._proc is not cleared
StopKeepHandle ==
    /\ stop_pc \in {"idle", "called"}
    /\ stop_proc' = proc
    /\ proc' = proc
    /\ stopped' = (stopped \/ proc # 0)
    /\ stop_pc' = "resolve"
    /\ UNCHANGED <<nprocs, status, stdout, stdin, nlines, tableVars, reqVars, runVars, histVars, start_out, outerVars>>

\* stop(), lines 76-77: proc = self._proc; self._proc = None
StopTake ==
    /\ stop_pc \in {"idle", "called"}
    /\ stop_proc' = proc
    /\ proc' = 0
    /\ stopped' = (stopped \/ proc # 0)
    /\ stop_pc' = "resolve"
    /\ UNCHANGED <<nprocs, status, stdout, stdin, nlines, tableVars, reqVars, runVars, histVars, start_out, outerVars>>

\* mutant of ResolveAll: the table is cleared without waking the waiters
ClearOnly(payload) ==
    /\ slot' = slot
    /\ pending' = {}

\* the loop of a shutdown path over self._pending.values(), then clear()
ResolveAll(payload) ==
    /\ slot' = [id \in ReqIds |->
                  IF id \in pending THEN [event |-> TRUE, response |-> payload]
                  ELSE slot[id]]
    /\ pending' = {}

\* one more event.set() on a slot
Bump(n) == IF n < 2 THEN n + 1 ELSE 2

CountSetAll == [id \in ReqIds |-> IF id \in pending THEN Bump(nset[id]) ELSE nset[id]]

\* stop(), lines 80-84, under _pending_lock
StopResolve ==
    /\ stop_pc = "resolve"
    /\ ResolveAll(StoppedPayload)
    /\ nset' = CountSetAll
    /\ stopHit' = stopHit \cup {r \in pending : pc[r] = "wait"}
    /\ stop_pc' = "terminate"
    /\ UNCHANGED <<procVars, reqVars, runVars, stop_proc, parsed, eofHit, lifeVars, outerVars>>

\* stop(), lines 86-94: return if there was no handle; else terminate, wait, kill
StopTerminate ==
    /\ stop_pc = "terminate"
    /\ status' = IF stop_proc # 0 /\ status[stop_proc] = "running"
                 THEN [status EXCEPT ![stop_proc] = "exited"]
                 ELSE status
    /\ stop_pc' = "idle"
    /\ stop_proc' = 0
    /\ UNCHANGED <<proc, nprocs, stdout, stdin, nlines, tableVars, reqVars, runVars, histVars, lifeVars, outerVars>>

(* ---------------- the child process ---------------- *)

\* the reply_to values child p can put on a line: none, a non-string, or the
\* id of a request line it has received (a uuid4 cannot be guessed)
ReplyTos(p) == {Absent, NonStr} \cup {Str(stdin[p][i]) : i \in 1..Len(stdin[p])}

\* the child writes one line to its stdout (of a text class in `kinds`, while
\* fewer than `max` lines have been written)
ChildEmit(p, kinds, max) ==
    /\ status[p] = "running"
    /\ nlines < max
    /\ \E kind \in kinds :
         \E rt \in (IF kind = "object" THEN ReplyTos(p) ELSE {Absent}) :
            stdout' = [stdout EXCEPT ![p] = Append(@, Line(kind, rt, nlines + 1))]
    /\ nlines' = nlines + 1
    /\ UNCHANGED <<proc, nprocs, status, stdin, tableVars, reqVars, runVars, stopVars, histVars, lifeVars, outerVars>>

\* the child exits (or crashes): its stdout reaches end of input once drained
ChildExit(p) ==
    /\ status[p] = "running"
    /\ status' = [status EXCEPT ![p] = "exited"]
    /\ UNCHANGED <<proc, nprocs, stdout, stdin, nlines, tableVars, reqVars, runVars, stopVars, histVars, lifeVars, outerVars>>

(* ---------------- send() called on its own ---------------- *)

\* send(), lines 102-104: proc = self._proc; raise when it is None
DirectSendCheck ==
    /\ snd_pc = "idle"
    /\ snd_proc' = proc
    /\ snd_active' = IsRunning
    /\ IF proc = 0
       THEN snd_out' = "not_running" /\ snd_pc' = "done"
       ELSE snd_out' = snd_out /\ snd_pc' = "write"
    /\ UNCHANGED <<procVars, tableVars, reqVars, runVars, stopVars, histVars, lifeVars, svcVars, routerVars, extVars>>

\* send(), lines 106-109, under _write_lock: one line (0: a message without id)
\* to the child's stdin; the write to a child that has exited raises BrokenPipeError
DirectSendWrite ==
    /\ snd_pc = "write"
    /\ IF status[snd_proc] = "running"
       THEN /\ stdin' = [stdin EXCEPT ![snd_proc] = Append(@, 0)]
            /\ snd_out' = "ok"
       ELSE /\ stdin' = stdin
            /\ snd_out' = "broken_pipe"
    /\ snd_pc' = "done"
    /\ UNCHANGED <<proc, nprocs, status, stdout, nlines, tableVars, reqVars, runVars, stopVars, histVars, lifeVars, snd_proc, snd_active, svcVars, routerVars, extVars>>

(* ---------------- request() ---------------- *)

\* request(), lines 120-127: fresh id, new _Pending, registered under the lock
Register(r) ==
    /\ pc[r] = "idle"
    /\ \A q \in ReqIds : q < r => pc[q] # "idle"
    /\ pending' = pending \cup {r}
    /\ slot' = [slot EXCEPT ![r] = NewPending]
    /\ pc' = [pc EXCEPT ![r] = "send"]
    /\ UNCHANGED <<procVars, sproc, outcome, result, runVars, stopVars, histVars, lifeVars, outerVars>>

\* send(), lines 102-104: proc = self._proc; raise when it is None
SendCheck(r) ==
    /\ pc[r] = "send"
    /\ sproc' = [sproc EXCEPT ![r] = proc]
    /\ IF proc = 0
       THEN /\ outcome' = [outcome EXCEPT ![r] = "not_running"]
            /\ pc' = [pc EXCEPT ![r] = "finally"]
       ELSE /\ outcome' = outcome
            /\ pc' = [pc EXCEPT ![r] = "write"]
    /\ UNCHANGED <<procVars, tableVars, result, runVars, stopVars, histVars, lifeVars, outerVars>>

\* send(), lines 106-109, under _write_lock: one line to the child's stdin; the
\* write to a child that has exited raises BrokenPipeError
SendWrite(r) ==
    /\ pc[r] = "write"
    /\ IF status[sproc[r]] = "running"
       THEN /\ stdin' = [stdin EXCEPT ![sproc[r]] = Append(@, r)]
            /\ outcome' = outcome
            /\ pc' = [pc EXCEPT ![r] = "wait"]
       ELSE /\ stdin' = stdin
            /\ outcome' = [outcome EXCEPT ![r] = "broken_pipe"]
            /\ pc' = [pc EXCEPT ![r] = "finally"]
    /\ sproc' = [sproc EXCEPT ![r] = 0]
    /\ UNCHANGED <<proc, nprocs, status, stdout, nlines, tableVars, result, runVars, stopVars, histVars, lifeVars, outerVars>>

\* mutant of WaitWake: the result of wait() is ignored
WaitIgnoringResult(r) ==
    /\ pc[r] = "wait"
    /\ pc' = [pc EXCEPT ![r] = "read"]
    /\ UNCHANGED <<procVars, tableVars, sproc, outcome, result, runVars, stopVars, histVars, lifeVars, outerVars>>

\* request(), line 131: pending.event.wait(timeout) returns True
WaitWake(r) ==
    /\ pc[r] = "wait"
    /\ slot[r].event
    /\ pc' = [pc EXCEPT ![r] = "read"]
    /\ UNCHANGED <<procVars, tableVars, sproc, outcome, result, runVars, stopVars, histVars, lifeVars, outerVars>>

\* mutant of WaitTimeout: event.wait() is called without a timeout
WaitForever(r) ==
    /\ FALSE
    /\ UNCHANGED vars

\* request(), lines 131-132: the wait times out, TimeoutError
WaitTimeout(r) ==
    /\ pc[r] = "wait"
    /\ ~slot[r].event
    /\ outcome' = [outcome EXCEPT ![r] = "timeout"]
    /\ pc' = [pc EXCEPT ![r] = "finally"]
    /\ UNCHANGED <<procVars, tableVars, sproc, result, runVars, stopVars, histVars, lifeVars, outerVars>>

\* request(), lines 133-134: assert response is not None; return it
ReadResponse(r) ==
    /\ pc[r] = "read"
    /\ IF slot[r].response = NoneResp
       THEN /\ outcome' = [outcome EXCEPT ![r] = "assertion"]
            /\ result' = result
       ELSE /\ outcome' = [outcome EXCEPT ![r] = "returned"]
            /\ result' = [result EXCEPT ![r] = slot[r].response]
    /\ pc' = [pc EXCEPT ![r] = "finally"]
    /\ UNCHANGED <<procVars, tableVars, sproc, runVars, stopVars, histVars, lifeVars, outerVars>>

\* mutant of Finally: the entry is popped on the success path only (no try/finally)
PopOnSuccessOnly(r) ==
    /\ pc[r] = "finally"
    /\ pending' = IF outcome[r] = "returned" THEN pending \ {r} ELSE pending
    /\ pc' = [pc EXCEPT ![r] = "done"]
    /\ UNCHANGED <<procVars, slot, sproc, outcome, result, runVars, stopVars, histVars, lifeVars, outerVars>>

\* request(), lines 135-137: finally, under the lock: self._pending.pop(req_id, None)
Finally(r) ==
    /\ pc[r] = "finally"
    /\ pending' = pending \ {r}
    /\ pc' = [pc EXCEPT ![r] = "done"]
    /\ UNCHANGED <<procVars, slot, sproc, outcome, result, runVars, stopVars, histVars, lifeVars, outerVars>>

(* ---------------- produce() ---------------- *)

\* produce(), lines 141-152: forward_responses drawn from `fwds`;
\* proc = self._proc; raise when it is None
ProduceStart(k, fwds) ==
    /\ rpc[k] = "idle"
    /\ proc \in {0, k}
    /\ IF proc = 0
       THEN /\ rpc' = [rpc EXCEPT ![k] = "failed"]
            /\ UNCHANGED <<rproc, forward>>
       ELSE /\ rpc' = [rpc EXCEPT ![k] = "loop"]
            /\ rproc' = [rproc EXCEPT ![k] = proc]
            /\ \E f \in fwds : forward' = [forward EXCEPT ![k] = f]
    /\ UNCHANGED <<procVars, tableVars, reqVars, rmsg, rpend, stopEv, yielded, stopVars, histVars, lifeVars, outerVars>>

\* mutant of Lookup: replies are matched to the oldest pending request, not by key
LookupOldest(rt) ==
    IF IsStr(rt) /\ pending # {}
    THEN CHOOSE id \in pending : \A other \in pending : id <= other
    ELSE 0

\* self._pending.get(reply_to) under the lock: the entry's id, or 0 for None
Lookup(rt) == IF IsStr(rt) /\ rt.v \in pending THEN rt.v ELSE 0

\* mutant of ReadLine: the reader takes the newest buffered line, not the oldest
ReadNewestLine(k) ==
    /\ rpc[k] = "loop"
    /\ stdout[rproc[k]] # <<>>
    /\ LET buf == stdout[rproc[k]]
           line == buf[Len(buf)]
           hit == Lookup(line.rt)
       IN /\ stdout' = [stdout EXCEPT ![rproc[k]] = SubSeq(buf, 1, Len(buf) - 1)]
          /\ IF stopEv[k]
             THEN /\ rpc' = [rpc EXCEPT ![k] = "cleanup"]
                  /\ UNCHANGED <<rmsg, rpend, parsed>>
             ELSE IF IsBlank(line) \/ IsBadJson(line) \/ ~IsDict(line)
             THEN UNCHANGED <<rpc, rmsg, rpend, parsed>>
             ELSE /\ rmsg' = [rmsg EXCEPT ![k] = line]
                  /\ rpend' = [rpend EXCEPT ![k] = hit]
                  /\ parsed' = [parsed EXCEPT ![k] = Append(@,
                                   [msg |-> line, hit |-> hit,
                                    waiting |-> hit # 0 /\ pc[hit] = "wait"])]
                  /\ rpc' = [rpc EXCEPT ![k] = IF hit # 0 THEN "set_response" ELSE "yield"]
    /\ UNCHANGED <<proc, nprocs, status, stdin, nlines, tableVars, reqVars, rproc, forward, stopEv, yielded, stopVars, nset, stopHit, eofHit, lifeVars, outerVars>>

\* produce(), lines 154-173: the next line of proc.stdout; break when stop is
\* set; skip blank, undecodable and non-object lines; look up a string reply_to
ReadLine(k) ==
    /\ rpc[k] = "loop"
    /\ stdout[rproc[k]] # <<>>
    /\ LET line == Head(stdout[rproc[k]])
           hit == Lookup(line.rt)
       IN /\ stdout' = [stdout EXCEPT ![rproc[k]] = Tail(@)]
          /\ IF stopEv[k]
             THEN /\ rpc' = [rpc EXCEPT ![k] = "cleanup"]
                  /\ UNCHANGED <<rmsg, rpend, parsed>>
             ELSE IF IsBlank(line) \/ IsBadJson(line) \/ ~IsDict(line)
             THEN UNCHANGED <<rpc, rmsg, rpend, parsed>>
             ELSE /\ rmsg' = [rmsg EXCEPT ![k] = line]
                  /\ rpend' = [rpend EXCEPT ![k] = hit]
                  /\ parsed' = [parsed EXCEPT ![k] = Append(@,
                                   [msg |-> line, hit |-> hit,
                                    waiting |-> hit # 0 /\ pc[hit] = "wait"])]
                  /\ rpc' = [rpc EXCEPT ![k] = IF hit # 0 THEN "set_response" ELSE "yield"]
    /\ UNCHANGED <<proc, nprocs, status, stdin, nlines, tableVars, reqVars, rproc, forward, stopEv, yielded, stopVars, nset, stopHit, eofHit, lifeVars, outerVars>>

\* produce(), line 154: proc.stdout is at end of input, the for loop ends
ReadEOF(k) ==
    /\ rpc[k] = "loop"
    /\ stdout[rproc[k]] = <<>>
    /\ status[rproc[k]] = "exited"
    /\ rpc' = [rpc EXCEPT ![k] = "cleanup"]
    /\ UNCHANGED <<procVars, tableVars, reqVars, rproc, rmsg, rpend, forward, stopEv, yielded, stopVars, histVars, lifeVars, outerVars>>

\* mutant of SetResponse: the message is not stored before the event is set
SetEventOnly(k) ==
    /\ rpc[k] = "set_response"
    /\ slot' = slot
    /\ rpc' = [rpc EXCEPT ![k] = "set_event"]
    /\ UNCHANGED <<procVars, pending, reqVars, rproc, rmsg, rpend, forward, stopEv, yielded, stopVars, histVars, lifeVars, outerVars>>

\* produce(), line 175: pending.response = msg  (outside the lock)
SetResponse(k) ==
    /\ rpc[k] = "set_response"
    /\ slot' = [slot EXCEPT ![rpend[k]].response = rmsg[k]]
    /\ rpc' = [rpc EXCEPT ![k] = "set_event"]
    /\ UNCHANGED <<procVars, pending, reqVars, rproc, rmsg, rpend, forward, stopEv, yielded, stopVars, histVars, lifeVars, outerVars>>

\* mutant of SetEvent: a routed response is always yielded as well
SetEventThenYield(k) ==
    /\ rpc[k] = "set_event"
    /\ slot' = [slot EXCEPT ![rpend[k]].event = TRUE]
    /\ nset' = [nset EXCEPT ![rpend[k]] = Bump(@)]
    /\ rpend' = [rpend EXCEPT ![k] = 0]
    /\ rpc' = [rpc EXCEPT ![k] = "yield"]
    /\ UNCHANGED <<procVars, pending, reqVars, rproc, rmsg, forward, stopEv, yielded, stopVars, parsed, stopHit, eofHit, lifeVars, outerVars>>

\* produce(), lines 176-178: pending.event.set(); continue unless forward_responses
SetEvent(k) ==
    /\ rpc[k] = "set_event"
    /\ slot' = [slot EXCEPT ![rpend[k]].event = TRUE]
    /\ nset' = [nset EXCEPT ![rpend[k]] = Bump(@)]
    /\ rpend' = [rpend EXCEPT ![k] = 0]
    /\ IF forward[k]
       THEN /\ rpc' = [rpc EXCEPT ![k] = "yield"]
            /\ rmsg' = rmsg
       ELSE /\ rpc' = [rpc EXCEPT ![k] = "loop"]
            /\ rmsg' = [rmsg EXCEPT ![k] = NoneResp]
    /\ UNCHANGED <<procVars, pending, reqVars, rproc, forward, stopEv, yielded, stopVars, parsed, stopHit, eofHit, lifeVars, outerVars>>

\* produce(), line 180: yield msg
Yield(k) ==
    /\ rpc[k] = "yield"
    /\ yielded' = [yielded EXCEPT ![k] = Append(@, rmsg[k])]
    /\ rmsg' = [rmsg EXCEPT ![k] = NoneResp]
    /\ rpc' = [rpc EXCEPT ![k] = "loop"]
    /\ UNCHANGED <<procVars, tableVars, reqVars, rproc, rpend, forward, stopEv, stopVars, histVars, lifeVars, outerVars>>

\* produce(), lines 183-187, under the lock: wake and clear every pending request
Cleanup(k) ==
    /\ rpc[k] = "cleanup"
    /\ ResolveAll(ClosedPayload)
    /\ nset' = CountSetAll
    /\ eofHit' = eofHit \cup {r \in pending : pc[r] = "wait"}
    /\ rpc' = [rpc EXCEPT ![k] = "done"]
    /\ UNCHANGED <<procVars, reqVars, rproc, rmsg, rpend, forward, stopEv, yielded, stopVars, parsed, stopHit, lifeVars, outerVars>>

\* StreamHandle.stop(), concurrency/models.py:11-12: self.stop_event.set()
HandleStop(k) ==
    /\ rpc[k] \in {"loop", "set_response", "set_event", "yield"}
    /\ ~stopEv[k]
    /\ stopEv' = [stopEv EXCEPT ![k] = TRUE]
    /\ UNCHANGED <<procVars, tableVars, reqVars, rpc, rproc, rmsg, rpend, forward, yielded, stopVars, histVars, lifeVars, outerVars>>

Next ==
    \/ Start(MaxProcs)
    \/ StopTake
    \/ StopResolve
    \/ StopTerminate
    \/ \E p \in Procs : ChildEmit(p, LineKinds, MaxLines)
    \/ \E p \in Procs : ChildExit(p)
    \/ \E r \in ReqIds : Register(r)
    \/ \E r \in ReqIds : SendCheck(r)
    \/ \E r \in ReqIds : SendWrite(r)
    \/ \E r \in ReqIds : WaitWake(r)
    \/ \E r \in ReqIds : WaitTimeout(r)
    \/ \E r \in ReqIds : ReadResponse(r)
    \/ \E r \in ReqIds : Finally(r)
    \/ \E k \in Runs : ProduceStart(k, BOOLEAN)
    \/ \E k \in Runs : ReadLine(k)
    \/ \E k \in Runs : ReadEOF(k)
    \/ \E k \in Runs : SetResponse(k)
    \/ \E k \in Runs : SetEvent(k)
    \/ \E k \in Runs : Yield(k)
    \/ \E k \in Runs : Cleanup(k)
    \/ \E k \in Runs : HandleStop(k)

Spec == Init /\ [][Next]_vars

\* the steps of request() call r after it has registered
RequestStep(r) ==
    \/ SendCheck(r)
    \/ SendWrite(r)
    \/ WaitWake(r)
    \/ WaitTimeout(r)
    \/ ReadResponse(r)
    \/ Finally(r)

(* The endpoint with stop(), child exit, timeouts and the stop signal, run as   *)
(* DeviceService.start() runs it (forward_responses False), the child writing  *)
(* JSON objects only.                                                          *)
LiveNext ==
    \/ Start(MaxProcs)
    \/ StopTake
    \/ StopResolve
    \/ StopTerminate
    \/ \E p \in Procs : ChildEmit(p, {"object"}, MaxLines)
    \/ \E p \in Procs : ChildExit(p)
    \/ \E r \in ReqIds : Register(r)
    \/ \E r \in ReqIds : RequestStep(r)
    \/ \E k \in Runs : ProduceStart(k, {FALSE})
    \/ \E k \in Runs : ReadLine(k)
    \/ \E k \in Runs : ReadEOF(k)
    \/ \E k \in Runs : SetResponse(k)
    \/ \E k \in Runs : SetEvent(k)
    \/ \E k \in Runs : Yield(k)
    \/ \E k \in Runs : Cleanup(k)
    \/ \E k \in Runs : HandleStop(k)

\* A thread inside request() keeps running: the locks it takes are held for a
\* few statements only, and its timed wait returns when the timeout elapses.
FairSpec == Init /\ [][LiveNext]_vars /\ \A r \in ReqIds : WF_vars(RequestStep(r))

\* the steps of produce() run k once it has captured its child
RunStep(k) ==
    \/ ReadLine(k)
    \/ ReadEOF(k)
    \/ SetResponse(k)
    \/ SetEvent(k)
    \/ Yield(k)
    \/ Cleanup(k)

(* The reader alone: a child writing lines of every text class and exiting    *)
(* when it likes, one produce() run whose consumer keeps pulling, and the     *)
(* stream handle's stop(); no request() and no stop() of the endpoint.        *)
StreamNext ==
    \/ Start(MaxProcs)
    \/ \E p \in Procs : ChildEmit(p, LineKinds, StreamLines)
    \/ \E p \in Procs : ChildExit(p)
    \/ \E k \in Runs : ProduceStart(k, BOOLEAN)
    \/ \E k \in Runs : ReadLine(k)
    \/ \E k \in Runs : ReadEOF(k)
    \/ \E k \in Runs : Yield(k)
    \/ \E k \in Runs : Cleanup(k)
    \/ \E k \in Runs : HandleStop(k)

\* The worker thread running produce() keeps running: it takes every step that
\* stays possible.  The child owes nothing: it may stay alive and silent.
StreamSpec == Init /\ [][StreamNext]_vars /\ \A k \in Runs : WF_vars(RunStep(k))

(* The lifecycle of the endpoint object: start() and stop() in any order and  *)
(* any number (up to LifeProcs children), a child that may exit, request()    *)
(* callers filling the table, and one caller of send(); no reader.            *)
LifeNext ==
    \/ Start(LifeProcs)
    \/ StartAlreadyRunning
    \/ StopTake
    \/ StopResolve
    \/ StopTerminate
    \/ \E p \in Procs : ChildExit(p)
    \/ \E r \in ReqIds : Register(r)
    \/ \E r \in ReqIds : RequestStep(r)
    \/ DirectSendCheck
    \/ DirectSendWrite

LifeSpec == Init /\ [][LifeNext]_vars

(* Two requests and two replies: the endpoint as DeviceService.start() runs it   *)
(* (produce(stop), so forward_responses stays False), a child that writes only   *)
(* JSON objects, and no stop(); timeouts, child exit and the stop signal remain. *)
PairNext ==
    \/ Start(MaxProcs)
    \/ \E p \in Procs : ChildEmit(p, {"object"}, PairLines)
    \/ \E p \in Procs : ChildExit(p)
    \/ \E r \in ReqIds : Register(r)
    \/ \E r \in ReqIds : SendCheck(r)
    \/ \E r \in ReqIds : SendWrite(r)
    \/ \E r \in ReqIds : WaitWake(r)
    \/ \E r \in ReqIds : WaitTimeout(r)
    \/ \E r \in ReqIds : ReadResponse(r)
    \/ \E r \in ReqIds : Finally(r)
    \/ \E k \in Runs : ProduceStart(k, {FALSE})
    \/ \E k \in Runs : ReadLine(k)
    \/ \E k \in Runs : ReadEOF(k)
    \/ \E k \in Runs : SetResponse(k)
    \/ \E k \in Runs : SetEvent(k)
    \/ \E k \in Runs : Yield(k)
    \/ \E k \in Runs : Cleanup(k)
    \/ \E k \in Runs : HandleStop(k)

PairSpec == Init /\ [][PairNext]_vars

(* ---------------- DeviceService (device_service.py) ---------------- *)
(* start(), stop() and send() run under self._lock: svc_pc is the position of *)
(* the one thread inside the lock, and the calls it makes into the endpoint   *)
(* are the endpoint's own actions, taken while it is at that position.        *)

\* self._lock (line 20) can be taken by a caller's thread: no thread is inside
\* start(), stop() or send(), and the stream worker does not hold it
LockFree == svc_pc = "idle" /\ ~d_lock

\* _ensure_running(), lines 131-133: the condition under which it does not raise
ServiceRunning == handle # 0 /\ IsRunning

\* mutant of SvcStartBegin: the check of lines 29-30 is missing
SvcStartUnchecked ==
    /\ LockFree
    /\ handle # 0 \/ nprocs < LifeProcs
    /\ svc_out' = svc_out
    /\ svc_pc' = "ep_start"
    /\ UNCHANGED <<procVars, tableVars, reqVars, runVars, stopVars, histVars, lifeVars, extVars, sendVars, routerVars,
                   handle, nhandles, hstop, svc_h, ss_out, ra_pc, ra_out, ra_held>>

\* start(), lines 28-30: take the lock; return if a handle is held (while fewer
\* than LifeProcs children have been spawned)
SvcStartBegin ==
    /\ LockFree
    /\ handle # 0 \/ nprocs < LifeProcs
    /\ IF handle # 0
       THEN svc_out' = "noop" /\ svc_pc' = svc_pc
       ELSE svc_out' = svc_out /\ svc_pc' = "ep_start"
    /\ UNCHANGED <<procVars, tableVars, reqVars, runVars, stopVars, histVars, lifeVars, extVars, sendVars, routerVars,
                   handle, nhandles, hstop, svc_h, ss_out, ra_pc, ra_out, ra_held>>

\* start(), line 32: self._endpoint.start()
SvcStartEndpoint ==
    /\ svc_pc = "ep_start"
    /\ proc = 0
    /\ Start(LifeProcs)

\* start(), lines 34-46: self._handle = self._io.stream(producer, ...); release the lock
SvcStartStream ==
    /\ svc_pc = "ep_start"
    /\ proc # 0
    /\ nhandles' = nhandles + 1
    /\ handle' = nhandles + 1
    /\ svc_out' = "started"
    /\ svc_pc' = "idle"
    /\ UNCHANGED <<procVars, tableVars, reqVars, runVars, stopVars, histVars, lifeVars, extVars, sendVars, routerVars,
                   hstop, svc_h, ss_out, ra_pc, ra_out, ra_held>>

\* mutant of SvcStopTake: the stream is signalled before the endpoint is stopped
SvcStopSignalFirst ==
    /\ LockFree
    /\ stop_pc = "idle"
    /\ svc_h' = handle
    /\ handle' = 0
    /\ hstop' = IF handle # 0 THEN [hstop EXCEPT ![handle] = TRUE] ELSE hstop
    /\ stop_pc' = "called"
    /\ svc_pc' = "ep_stop"
    /\ UNCHANGED <<procVars, tableVars, reqVars, runVars, stop_proc, histVars, lifeVars, extVars, sendVars, routerVars,
                   nhandles, svc_out, ss_out, ra_pc, ra_out, ra_held>>

\* stop(), lines 49-54: take the lock; handle = self._handle; self._handle = None;
\* enter self._endpoint.stop()
SvcStopTake ==
    /\ LockFree
    /\ stop_pc = "idle"
    /\ svc_h' = handle
    /\ handle' = 0
    /\ stop_pc' = "called"
    /\ svc_pc' = "ep_stop"
    /\ UNCHANGED <<procVars, tableVars, reqVars, runVars, stop_proc, histVars, lifeVars, extVars, sendVars, routerVars,
                   nhandles, hstop, svc_out, ss_out, ra_pc, ra_out, ra_held>>

\* stop(), line 54: the steps of self._endpoint.stop()
SvcStopEndpoint ==
    /\ svc_pc = "ep_stop"
    /\ stop_pc # "idle"
    /\ (StopTake \/ StopResolve \/ StopTerminate)

\* stop(), lines 56-57: handle.stop() if a handle was held; release the lock
SvcStopSignal ==
    /\ svc_pc = "ep_stop"
    /\ stop_pc = "idle"
    /\ hstop' = IF svc_h # 0 THEN [hstop EXCEPT ![svc_h] = TRUE] ELSE hstop
    /\ svc_h' = 0
    /\ svc_pc' = "idle"
    /\ UNCHANGED <<procVars, tableVars, reqVars, runVars, stopVars, histVars, lifeVars, extVars, sendVars, routerVars,
                   handle, nhandles, svc_out, ss_out, ra_pc, ra_out, ra_held>>

\* send(), lines 82-83: take the lock; _ensure_running() raises or passes
SvcSendEnsure ==
    /\ LockFree
    /\ ss_out = "none"
    /\ IF ServiceRunning
       THEN ss_out' = ss_out /\ svc_pc' = "send"
       ELSE ss_out' = "not_running" /\ svc_pc' = svc_pc
    /\ UNCHANGED <<procVars, tableVars, reqVars, runVars, stopVars, histVars, lifeVars, extVars, sendVars, routerVars,
                   handle, nhandles, hstop, svc_h, svc_out, ra_pc, ra_out, ra_held>>

\* send(), line 84: the steps of self._endpoint.send(msg)
SvcSendEndpoint ==
    /\ svc_pc = "send"
    /\ (DirectSendCheck \/ DirectSendWrite)

\* send(): endpoint.send() has returned or raised; release the lock
SvcSendReturn ==
    /\ svc_pc = "send"
    /\ snd_pc = "done"
    /\ ss_out' = "sent"
    /\ svc_pc' = "idle"
    /\ UNCHANGED <<procVars, tableVars, reqVars, runVars, stopVars, histVars, lifeVars, extVars, sendVars, routerVars,
                   handle, nhandles, hstop, svc_h, svc_out, ra_pc, ra_out, ra_held>>

\* request_async(), lines 97-98: _ensure_running() under the lock, lock released
RequestAsyncEnsure ==
    /\ ra_pc = "idle"
    /\ LockFree
    /\ IF ServiceRunning
       THEN ra_out' = ra_out /\ ra_pc' = "checked"
       ELSE ra_out' = "not_running" /\ ra_pc' = "done"
    /\ UNCHANGED <<procVars, tableVars, reqVars, runVars, stopVars, histVars, lifeVars, extVars, sendVars, routerVars,
                   handle, nhandles, hstop, svc_pc, svc_h, svc_out, ss_out, ra_held>>

\* request_async(), lines 100-107, outside the lock: self._io.run(lambda: request(...))
RequestAsyncSchedule ==
    /\ ra_pc = "checked"
    /\ ra_out' = "scheduled"
    /\ ra_held' = (handle # 0)
    /\ ra_pc' = "done"
    /\ UNCHANGED <<procVars, tableVars, reqVars, runVars, stopVars, histVars, lifeVars, extVars, sendVars, routerVars,
                   handle, nhandles, hstop, svc_pc, svc_h, svc_out, ss_out>>

(* The service over its endpoint, the endpoint driven through the service     *)
(* only: start() and stop() in any order from any thread (the stream          *)
(* callbacks _on_stream_error/_on_stream_complete are stop() calls), a child  *)
(* that may exit, one send() and one request_async().                         *)
SvcNext ==
    \/ SvcStartBegin
    \/ SvcStartEndpoint
    \/ SvcStartStream
    \/ SvcStopTake
    \/ SvcStopEndpoint
    \/ SvcStopSignal
    \/ \E p \in Procs : ChildExit(p)
    \/ SvcSendEnsure
    \/ SvcSendEndpoint
    \/ SvcSendReturn
    \/ RequestAsyncEnsure
    \/ RequestAsyncSchedule

SvcSpec == Init /\ [][SvcNext]_vars


(* ---------------- DeviceService: message routing ---------------- *)

\* the handler most recently registered for type t and not removed since, 0
\* if there is none, read off the calls made
RECURSIVE Latest(_, _)
Latest(log, t) ==
    IF log = <<>> THEN 0
    ELSE LET e == log[Len(log)] IN
         IF e.op = "clear" THEN 0
         ELSE IF e.t = t THEN e.h
         ELSE Latest(SubSeq(log, 1, Len(log) - 1), t)

\* mutant of RegisterHandler: an existing entry is kept (setdefault)
RegisterKeepFirst(t, h) ==
    /\ LockFree
    /\ Len(regs) < MaxRegs
    /\ handlers' = IF handlers[t] = 0 THEN [handlers EXCEPT ![t] = h] ELSE handlers
    /\ regs' = Append(regs, [op |-> "register", t |-> t, h |-> h])
    /\ UNCHANGED <<procVars, tableVars, reqVars, runVars, stopVars, histVars, lifeVars, extVars, sendVars, svcVars,
                   d_pc, d_msg, d_h, calls, expected, nmsgs, d_lock, d_at>>

\* register_handler(msg_type, handler), lines 68-69: self._handlers[msg_type] = handler
RegisterHandler(t, h) ==
    /\ LockFree
    /\ Len(regs) < MaxRegs
    /\ handlers' = [handlers EXCEPT ![t] = h]
    /\ regs' = Append(regs, [op |-> "register", t |-> t, h |-> h])
    /\ UNCHANGED <<procVars, tableVars, reqVars, runVars, stopVars, histVars, lifeVars, extVars, sendVars, svcVars,
                   d_pc, d_msg, d_h, calls, expected, nmsgs, d_lock, d_at>>

\* unregister_handler(msg_type), lines 72-73: self._handlers.pop(msg_type, None)
UnregisterHandler(t) ==
    /\ LockFree
    /\ Len(regs) < MaxRegs
    /\ handlers' = [handlers EXCEPT ![t] = 0]
    /\ regs' = Append(regs, [op |-> "unregister", t |-> t, h |-> 0])
    /\ UNCHANGED <<procVars, tableVars, reqVars, runVars, stopVars, histVars, lifeVars, extVars, sendVars, svcVars,
                   d_pc, d_msg, d_h, calls, expected, nmsgs, d_lock, d_at>>

\* clear_handlers(), lines 76-77: self._handlers.clear()
ClearHandlers ==
    /\ LockFree
    /\ Len(regs) < MaxRegs
    /\ handlers' = [t \in MsgTypes |-> 0]
    /\ regs' = Append(regs, [op |-> "clear", t |-> 0, h |-> 0])
    /\ UNCHANGED <<procVars, tableVars, reqVars, runVars, stopVars, histVars, lifeVars, extVars, sendVars, svcVars,
                   d_pc, d_msg, d_h, calls, expected, nmsgs, d_lock, d_at>>

\* _on_stream_message(msg), lines 112-113: msg_type = msg.get("type"); return
\* if it is not a string (the stream worker delivers one message at a time)
OnStreamMessage(tf) ==
    /\ d_pc = "idle"
    /\ nmsgs < MaxMsgs
    /\ nmsgs' = nmsgs + 1
    /\ d_msg' = Msg(tf, nmsgs + 1)
    /\ d_pc' = IF IsStr(tf) THEN "lookup" ELSE "idle"
    /\ UNCHANGED <<procVars, tableVars, reqVars, runVars, stopVars, histVars, lifeVars, extVars, sendVars, svcVars,
                   handlers, regs, d_h, calls, expected, d_lock, d_at>>

\* line 115: with self._lock: the worker takes the lock
OnStreamAcquire ==
    /\ d_pc = "lookup"
    /\ LockFree
    /\ d_lock' = TRUE
    /\ d_pc' = "locked"
    /\ UNCHANGED <<procVars, tableVars, reqVars, runVars, stopVars, histVars, lifeVars, extVars, sendVars, svcVars,
                   handlers, regs, d_msg, d_h, calls, expected, nmsgs, d_at>>

\* mutant of OnStreamLookup: the lock is kept while the handler is called
OnStreamLookupHold ==
    /\ d_pc = "locked"
    /\ d_h' = handlers[d_msg.type.v]
    /\ expected' = LET h == Latest(regs, d_msg.type.v) IN
                   IF h # 0 THEN Append(expected, [h |-> h, msg |-> d_msg]) ELSE expected
    /\ d_pc' = "call"
    /\ UNCHANGED <<procVars, tableVars, reqVars, runVars, stopVars, histVars, lifeVars, extVars, sendVars, svcVars,
                   handlers, regs, d_msg, calls, nmsgs, d_lock, d_at>>

\* lines 115-116: handler = self._handlers.get(msg_type); the with block ends
\* and the lock is released
OnStreamLookup ==
    /\ d_pc = "locked"
    /\ d_h' = handlers[d_msg.type.v]
    /\ expected' = LET h == Latest(regs, d_msg.type.v) IN
                   IF h # 0 THEN Append(expected, [h |-> h, msg |-> d_msg]) ELSE expected
    /\ d_lock' = FALSE
    /\ d_pc' = "call"
    /\ UNCHANGED <<procVars, tableVars, reqVars, runVars, stopVars, histVars, lifeVars, extVars, sendVars, svcVars,
                   handlers, regs, d_msg, calls, nmsgs, d_at>>

\* lines 117-118: if handler is not None: handler(msg) is entered; with no
\* handler the method returns
OnStreamCall ==
    /\ d_pc = "call"
    /\ IF d_h # 0
       THEN /\ calls' = Append(calls, [h |-> d_h, msg |-> d_msg])
            /\ d_at' = Len(regs)
            /\ d_pc' = "handler"
            /\ d_h' = d_h
       ELSE /\ calls' = calls
            /\ d_at' = d_at
            /\ d_pc' = "idle"
            /\ d_h' = 0
    /\ UNCHANGED <<procVars, tableVars, reqVars, runVars, stopVars, histVars, lifeVars, extVars, sendVars, svcVars,
                   handlers, regs, d_msg, expected, nmsgs, d_lock>>

\* lines 118-119: handler(msg) returns; return
OnHandlerReturn ==
    /\ d_pc = "handler"
    /\ d_h' = 0
    /\ d_pc' = "idle"
    /\ UNCHANGED <<procVars, tableVars, reqVars, runVars, stopVars, histVars, lifeVars, extVars, sendVars, svcVars,
                   handlers, regs, d_msg, calls, expected, nmsgs, d_lock, d_at>>

\* one DeviceService's routing table, its callers and the stream worker
RouterNext ==
    \/ \E t \in MsgTypes, h \in HandlerIds : RegisterHandler(t, h)
    \/ \E t \in MsgTypes : UnregisterHandler(t)
    \/ ClearHandlers
    \/ \E tf \in TypeFields : OnStreamMessage(tf)
    \/ OnStreamAcquire
    \/ OnStreamLookup
    \/ OnStreamCall
    \/ OnHandlerReturn

RouterSpec == Init /\ [][RouterNext]_vars

(* The routing table with a stop() and a send() of the service running next  *)
(* to the dispatch: the calls a handler, or another thread, makes into the   *)
(* service while the handler executes.                                       *)
DispatchNext ==
    \/ \E t \in MsgTypes, h \in HandlerIds : RegisterHandler(t, h)
    \/ \E t \in MsgTypes : UnregisterHandler(t)
    \/ \E tf \in TypeFields : OnStreamMessage(tf)
    \/ OnStreamAcquire
    \/ OnStreamLookup
    \/ OnStreamCall
    \/ OnHandlerReturn
    \/ SvcStopTake
    \/ SvcStopEndpoint
    \/ SvcStopSignal
    \/ SvcSendEnsure

DispatchSpec == Init /\ [][DispatchNext]_vars

(* ---------------- DeviceService: stream callbacks ---------------- *)

\* mutant of OnStreamCallback: the callback drops the handle and signals the
\* stream without calling stop() (the endpoint is left as it is)
OnStreamCallbackDetach(kind) ==
    /\ cb_pc = "idle"
    /\ nhandles > 0
    /\ LockFree
    /\ stop_pc = "idle"
    /\ svc_h' = handle
    /\ handle' = 0
    /\ svc_pc' = "ep_stop"
    /\ cb_pc' = "stopping"
    /\ cb_kind' = kind
    /\ UNCHANGED <<procVars, tableVars, reqVars, runVars, stopVars, histVars, lifeVars, sendVars, routerVars,
                   nhandles, hstop, svc_out, ss_out, ra_pc, ra_out, ra_held, childVars, writeVars>>

\* _on_stream_error(e) / _on_stream_complete(), lines 121-122 and 125-126,
\* called by the task runner for a stream it was asked for: self.stop(), which
\* takes the lock, captures and clears the handle and enters endpoint.stop()
OnStreamCallback(kind) ==
    /\ cb_pc = "idle"
    /\ nhandles > 0
    /\ LockFree
    /\ stop_pc = "idle"
    /\ svc_h' = handle
    /\ handle' = 0
    /\ stop_pc' = "called"
    /\ svc_pc' = "ep_stop"
    /\ cb_pc' = "stopping"
    /\ cb_kind' = kind
    /\ UNCHANGED <<procVars, tableVars, reqVars, runVars, stop_proc, histVars, lifeVars, sendVars, routerVars,
                   nhandles, hstop, svc_out, ss_out, ra_pc, ra_out, ra_held, childVars, writeVars>>

\* lines 123 and 127: stop() has returned; print(...) and return
OnStreamCallbackReturn ==
    /\ cb_pc = "stopping"
    /\ svc_pc = "idle"
    /\ cb_pc' = "returned"
    /\ UNCHANGED <<procVars, tableVars, reqVars, runVars, stopVars, histVars, lifeVars, sendVars, svcVars,
                   routerVars, cb_kind, childVars, writeVars>>

(* The service with the task runner's reports: start(), stop(), send() and    *)
(* request_async() as in SvcSpec, one stream error or completion reported at  *)
(* any time after a stream was opened, and one request() call run by the      *)
(* task runner against the endpoint.                                          *)
CallbackNext ==
    \/ SvcStartBegin
    \/ SvcStartEndpoint
    \/ SvcStartStream
    \/ SvcStopTake
    \/ SvcStopEndpoint
    \/ SvcStopSignal
    \/ \E p \in Procs : ChildExit(p)
    \/ SvcSendEnsure
    \/ SvcSendEndpoint
    \/ SvcSendReturn
    \/ RequestAsyncEnsure
    \/ RequestAsyncSchedule
    \/ \E kind \in {"error", "complete"} : OnStreamCallback(kind)
    \/ OnStreamCallbackReturn
    \/ Register(1)
    \/ RequestStep(1)

CallbackSpec == Init /\ [][CallbackNext]_vars

(* ---------------- the child process as a JsonlStdioAppBase ---------------- *)

\* request_msg.get(request_id_field) for a line of the child's stdin: request r
\* carries the string the host stamped; a message sent with send() carries no
\* id or a non-string one
IdFields(item) == IF item = 0 THEN {Absent, NonStr} ELSE {Str(item)}

\* mutant of Reply: the isinstance check of line 36 is missing
ReplyUnchecked(req_id, message) == [message EXCEPT !.rt = req_id]

\* reply(), json_process_base.py:35-41: the message emitted
Reply(req_id, message) ==
    IF IsStr(req_id) THEN [message EXCEPT !.rt = req_id] ELSE message

\* _stdin_loop hands the next line of stdin to on_message, which answers with
\* reply(request_msg, message): message is any object the subclass builds (its
\* own reply_to field absent, a non-string, or a string), emit() writes
\* json.dumps(out) and a newline, one line of stdout (lines 30-41, 77-91);
\* line 37 copies, so message is left as it was passed
ChildReply(p, max) ==
    /\ status[p] = "running"
    /\ ch_read[p] < Len(stdin[p])
    /\ nlines < max
    /\ LET item == stdin[p][ch_read[p] + 1] IN
       \E req_id \in IdFields(item), rt0 \in {Absent, NonStr, Str(MaxReq)} :
          LET message == Line("object", rt0, nlines + 1)
              out == Reply(req_id, message)
          IN /\ stdout' = [stdout EXCEPT ![p] = Append(@, out)]
             /\ emitted' = Append(emitted, [p |-> p, req_id |-> req_id, message |-> message,
                                            after |-> message, out |-> out])
    /\ ch_read' = [ch_read EXCEPT ![p] = @ + 1]
    /\ nlines' = nlines + 1
    /\ UNCHANGED <<proc, nprocs, status, stdin, tableVars, reqVars, runVars, stopVars, histVars, lifeVars,
                   sendVars, svcVars, routerVars, cbVars, writeVars>>

(* The echo scenario: a child that answers the lines of its stdin with       *)
(* reply(), request() callers, one send(), and the reader as                 *)
(* DeviceService.start() runs it; no stop() and no child exit.               *)
EchoNext ==
    \/ Start(MaxProcs)
    \/ \E p \in Procs : ChildReply(p, PairLines)
    \/ \E r \in ReqIds : Register(r)
    \/ \E r \in ReqIds : RequestStep(r)
    \/ DirectSendCheck
    \/ DirectSendWrite
    \/ \E k \in Runs : ProduceStart(k, {FALSE})
    \/ \E k \in Runs : ReadLine(k)
    \/ \E k \in Runs : SetResponse(k)
    \/ \E k \in Runs : SetEvent(k)
    \/ \E k \in Runs : Yield(k)

EchoSpec == Init /\ [][EchoNext]_vars

(* ---------------- send(): the write under _write_lock ---------------- *)
(* The text of one line reaches the pipe in up to two writes of the          *)
(* operating system (a line longer than the pipe's atomic write size): its   *)
(* head, and its tail ending in the newline.                                 *)

Chunk(w, part) == [w |-> w, part |-> part]

\* send(), lines 102-106: proc = self._proc; raise when it is None; encode
WrCheck(w) ==
    /\ w_pc[w] = "idle"
    /\ w_proc' = [w_proc EXCEPT ![w] = proc]
    /\ w_pc' = [w_pc EXCEPT ![w] = IF proc = 0 THEN "raised" ELSE "encoded"]
    /\ UNCHANGED <<procVars, tableVars, reqVars, runVars, stopVars, histVars, lifeVars,
                   sendVars, svcVars, routerVars, cbVars, childVars, wlock, wire>>

\* mutant of WrLock: the write is not guarded by the lock
WrNoLock(w) ==
    /\ w_pc[w] = "encoded"
    /\ wlock' = wlock
    /\ w_pc' = [w_pc EXCEPT ![w] = "locked"]
    /\ UNCHANGED <<procVars, tableVars, reqVars, runVars, stopVars, histVars, lifeVars,
                   sendVars, svcVars, routerVars, cbVars, childVars, w_proc, wire>>

\* line 107: with self._write_lock (enter)
WrLock(w) ==
    /\ w_pc[w] = "encoded"
    /\ wlock = 0
    /\ wlock' = w
    /\ w_pc' = [w_pc EXCEPT ![w] = "locked"]
    /\ UNCHANGED <<procVars, tableVars, reqVars, runVars, stopVars, histVars, lifeVars,
                   sendVars, svcVars, routerVars, cbVars, childVars, w_proc, wire>>

\* line 108: proc.stdin.write(line), first part; BrokenPipeError when the
\* child has exited, which leaves the with block
WrHead(w) ==
    /\ w_pc[w] = "locked"
    /\ IF status[w_proc[w]] = "running"
       THEN /\ wire' = [wire EXCEPT ![w_proc[w]] = Append(@, Chunk(w, "head"))]
            /\ w_pc' = [w_pc EXCEPT ![w] = "mid"]
            /\ wlock' = wlock
       ELSE /\ wire' = wire
            /\ w_pc' = [w_pc EXCEPT ![w] = "failed"]
            /\ wlock' = IF wlock = w THEN 0 ELSE wlock
    /\ UNCHANGED <<procVars, tableVars, reqVars, runVars, stopVars, histVars, lifeVars,
                   sendVars, svcVars, routerVars, cbVars, childVars, w_proc>>

\* lines 108-109: the rest of the line with its newline, flush(), and the
\* with block ends (the lock is released)
WrTail(w) ==
    /\ w_pc[w] = "mid"
    /\ IF status[w_proc[w]] = "running"
       THEN /\ wire' = [wire EXCEPT ![w_proc[w]] = Append(@, Chunk(w, "tail"))]
            /\ w_pc' = [w_pc EXCEPT ![w] = "done"]
       ELSE /\ wire' = wire
            /\ w_pc' = [w_pc EXCEPT ![w] = "failed"]
    /\ wlock' = IF wlock = w THEN 0 ELSE wlock
    /\ UNCHANGED <<procVars, tableVars, reqVars, runVars, stopVars, histVars, lifeVars,
                   sendVars, svcVars, routerVars, cbVars, childVars, w_proc>>

(* Concurrent send() calls (made directly or by request()) on one endpoint   *)
(* with a child that may exit.                                               *)
WriteNext ==
    \/ Start(MaxProcs)
    \/ \E p \in Procs : ChildExit(p)
    \/ \E w \in Writers : WrCheck(w)
    \/ \E w \in Writers : WrLock(w)
    \/ \E w \in Writers : WrHead(w)
    \/ \E w \in Writers : WrTail(w)

WriteSpec == Init /\ [][WriteNext]_vars

(* ---------------- sessions: stop() followed by start() ---------------- *)

\* the task runner's worker starts the producer of stream k: the generator of
\* start(), device_service.py:34-36, runs self._endpoint.produce(stop)
StreamRun(k) ==
    /\ nhandles >= k
    /\ ProduceStart(k, {FALSE})

(* The service through two sessions: start() and stop() under the service    *)
(* lock (so a stop() has returned before the next start() begins), the       *)
(* producer of the first stream run by the task runner's worker until its    *)
(* child's stdout ends, children that exit, and one request() call run by    *)
(* the task runner.                                                          *)
SessionNext ==
    \/ SvcStartBegin
    \/ SvcStartEndpoint
    \/ SvcStartStream
    \/ SvcStopTake
    \/ SvcStopEndpoint
    \/ SvcStopSignal
    \/ \E p \in Procs : ChildExit(p)
    \/ \E k \in Runs : StreamRun(k)
    \/ \E k \in Runs : ReadEOF(k)
    \/ \E k \in Runs : Cleanup(k)
    \/ Register(1)
    \/ RequestStep(1)

SessionSpec == Init /\ [][SessionNext]_vars

(* ---------------- properties ---------------- *)

\* every mapping a produce() run has parsed, with the entry its lookup returned
Entries == UNION {{parsed[k][i] : i \in 1..Len(parsed[k])} : k \in Runs}

\* the mappings that were read while Pending Request r was live: the lookup of
\* line 173 returned r's _Pending and call r was still blocked in its wait
RepliesTo(r) == {e.msg : e \in {x \in Entries : x.hit = r /\ x.waiting}}

\* C1: once request r has returned or raised, every mapping with reply_to = r
\* that the reader read while Pending Request r was live is exactly what the
\* call returned, and r is no longer in the table.
C1_ReplyReturned ==
    \A r \in ReqIds :
        pc[r] = "done" =>
            /\ r \notin pending
            /\ \A m \in RepliesTo(r) : outcome[r] = "returned" /\ result[r] = m

\* C2: the wait signal of every Pending Request is set at most once: by the
\* reader on a match or by a shutdown path (stop(), produce's cleanup), never
\* by both and never twice.
C2_SingleWriter ==
    \A id \in ReqIds : nset[id] <= 1

\* C3: every request that was blocked in its wait when stop() resolved the
\* table returns the synthetic "endpoint stopped" payload.
C3_StopResolvesAll ==
    \A r \in stopHit :
        pc[r] = "done" => outcome[r] = "returned" /\ result[r] = StoppedPayload

\* C4: every request blocked in its wait when produce() reached end of input
\* (or saw the stop signal) and ran its cleanup has its entry removed and its
\* signal set, so its wait cannot block; it returns a payload, never a timeout:
\* the synthetic "stdout closed" payload the cleanup wrote (or, if another
\* writer got to the slot afterwards, the reply to its own id).
C4_EofResolvesAll ==
    \A r \in eofHit :
        /\ slot[r].event
        /\ slot[r].response # NoneResp
        /\ r \notin pending
        /\ pc[r] = "done" =>
              /\ outcome[r] = "returned"
              /\ result[r] = ClosedPayload \/ result[r].rt = Str(r)

\* two requests were pending at end of input; both returned "stdout closed"
C4_Witness ==
    /\ eofHit = ReqIds
    /\ status[1] = "exited" /\ ~stopEv[1] /\ rpc[1] = "done"
    /\ \A r \in ReqIds : pc[r] = "done" /\ result[r] = ClosedPayload

\* C5: a request that was sent and whose wait signal was never set (no reply
\* matched it, stop() and produce's cleanup did not resolve it) ends with a
\* timeout error, returns no payload, and its entry is gone from the table.
C5_TimeoutWhenNoReply ==
    \A r \in ReqIds :
        (pc[r] = "done" /\ outcome[r] \notin {"not_running", "broken_pipe"} /\ nset[r] = 0) =>
            /\ outcome[r] = "timeout"
            /\ result[r] = NoneResp
            /\ r \notin pending

\* a sent request timed out while the child and the reader were still running
C5_Witness ==
    \E r \in ReqIds :
        /\ pc[r] = "done" /\ outcome[r] = "timeout" /\ nset[r] = 0
        /\ r \in {stdin[1][i] : i \in 1..Len(stdin[1])}
        /\ status[1] = "running" /\ rpc[1] = "loop" /\ r \notin pending

\* how a call of request() can end: a payload, or a definite failure
Definite == {"returned", "timeout", "not_running", "broken_pipe"}

C7_EntryRemoved ==
    /\ \A r \in ReqIds : pc[r] \in {"idle", "done"} => r \notin pending
    /\ (\A r \in ReqIds : pc[r] \in {"idle", "done"}) => pending = {}

\* two calls ended on different exit paths and the table is empty
C7_Witness ==
    /\ pc[1] = "done" /\ outcome[1] = "timeout"
    /\ pc[2] = "done" /\ outcome[2] = "not_running"
    /\ pending = {}

\* the text classes produce() skips: blank, undecodable, decodable non-object
Junk == {"blank", "badjson", "nonobject"}

\* C8: nothing but a JSON object is ever yielded or written into a result
\* slot or returned by request(), and a produce() run leaves its loop only
\* because the stop signal is set or its child's output is at end of input.
C8_JunkSkipped ==
    /\ \A k \in Runs : \A i \in 1..Len(yielded[k]) : yielded[k][i].kind = "object"
    /\ \A k \in Runs : \A i \in 1..Len(parsed[k]) : parsed[k][i].msg.kind = "object"
    /\ \A id \in ReqIds : slot[id].response.kind \notin Junk /\ result[id].kind \notin Junk
    /\ \A k \in Runs :
          rpc[k] \in {"cleanup", "done"} =>
              \/ stopEv[k]
              \/ status[rproc[k]] = "exited" /\ stdout[rproc[k]] = <<>>

\* the run has read the one line of its child, which was no JSON object (nothing
\* was parsed or yielded), and is back at the head of its loop
C8_Witness ==
    /\ nlines = 1 /\ stdout[1] = <<>> /\ status[1] = "running"
    /\ rpc[1] = "loop" /\ ~stopEv[1]
    /\ parsed[1] = <<>> /\ yielded[1] = <<>>
    /\ pending # {} /\ \A id \in pending : ~slot[id].event

InSeq(x, seq) == \E i \in 1..Len(seq) : seq[i] = x

\* C9: for every mapping a run has parsed and finished handling: if its
\* reply_to matched a live entry, that entry's signal is set and the message is
\* yielded exactly when forward_responses is set; otherwise (no reply_to, a
\* non-string, or a string with no live entry) the message is yielded and is in
\* no result slot.
C9_RouteOrYield ==
    \A k \in Runs : \A i \in 1..Len(parsed[k]) :
        LET e == parsed[k][i]
            handled == i < Len(parsed[k]) \/ rpc[k] \in {"loop", "cleanup", "done"}
        IN /\ e.hit # 0 => e.msg.rt = Str(e.hit)
           /\ (e.hit = 0 /\ IsStr(e.msg.rt)) => e.msg.rt.v \notin pending
           /\ handled =>
                IF e.hit # 0
                THEN /\ slot[e.hit].event
                     /\ nset[e.hit] >= 1
                     /\ InSeq(e.msg, yielded[k]) <=> forward[k]
                ELSE /\ InSeq(e.msg, yielded[k])
                     /\ \A id \in ReqIds : slot[id].response # e.msg /\ result[id] # e.msg

\* a reply that arrived after its request had timed out was yielded
C9_Witness ==
    \E r \in ReqIds :
        /\ pc[r] = "done" /\ outcome[r] = "timeout"
        /\ \E i \in 1..Len(parsed[1]) :
              /\ parsed[1][i].msg.rt = Str(r) /\ parsed[1][i].hit = 0
              /\ InSeq(parsed[1][i].msg, yielded[1])

\* C10: with two calls of request() in flight and the replies in any order on
\* the wire, a call that returns a message returns one the reader matched to
\* that call's own id (reply_to equal to the id), never the message of the other
\* call; the only other payload a call can return is the cleanup's synthetic
\* one, when produce() ended while the call was pending.
C10_OwnReply ==
    \A a \in ReqIds :
        outcome[a] = "returned" =>
            \/ /\ result[a].rt = Str(a)
               /\ \E e \in Entries : e.msg = result[a] /\ e.hit = a
               /\ \A b \in ReqIds \ {a} : result[b] # result[a]
            \/ result[a] = ClosedPayload

\* both calls were sent, 1 before 2; the reply to 2 came first on the wire;
\* each call returned the reply to its own id
C10_Witness ==
    /\ stdin[1] = <<1, 2>>
    /\ \A r \in ReqIds : pc[r] = "done" /\ outcome[r] = "returned" /\ result[r].rt = Str(r)
    /\ result[2].n < result[1].n

\* C11: while the endpoint holds a process handle (a start() succeeded and no
\* stop() took the handle since), no step spawns a child or replaces the
\* handle, and a start() call that ends with the already-running error leaves
\* the handle, the children and the Pending-Request Table as they were.
C11_StartTwiceFails ==
    [][/\ proc # 0 => (nprocs' = nprocs /\ proc' \in {0, proc})
       /\ (start_out' = "already_running" /\ start_out # "already_running") =>
             (proc # 0 /\ UNCHANGED <<procVars, tableVars>>)]_vars

\* start() has just failed with already-running: one child, still the handle,
\* no stop() so far, and a request in the table
C11_Witness ==
    /\ start_out = "already_running"
    /\ nprocs = 1 /\ proc = 1 /\ ~stopped /\ stop_pc = "idle"
    /\ pending # {}

\* C12: a send() call made while no process is active (before start(), after
\* stop(), after the child has exited) ends with the not-running error and
\* writes no line.
C12_SendNotRunning ==
    (snd_pc = "done" /\ ~snd_active) =>
        /\ snd_out = "not_running"
        /\ \A p \in Procs : \A i \in 1..Len(stdin[p]) : stdin[p][i] # 0

\* C13: stop() clears the process handle and empties the table; a stop() that
\* found no handle (endpoint not started or already stopped) terminates no
\* process, and run from a state with no handle and an empty table it changes
\* nothing but its own position.
C13_StopIdempotent ==
    [][/\ (stop_pc \in {"idle", "called"} /\ stop_pc' = "resolve") => proc' = 0
       /\ (stop_pc = "resolve" /\ stop_pc' = "terminate") => pending' = {}
       /\ (stop_pc = "terminate" /\ stop_pc' = "idle" /\ stop_proc = 0) => status' = status
       /\ (stop_pc' # stop_pc /\ proc = 0 /\ stop_proc = 0 /\ pending = {}) =>
             UNCHANGED <<procVars, tableVars, stop_proc>>]_vars

\* a second stop(), on the endpoint an earlier stop() has stopped, is about to
\* return: no handle, the child of the first session exited, the table empty
C13_Witness ==
    /\ stopped /\ stop_pc = "terminate" /\ stop_proc = 0
    /\ proc = 0 /\ nprocs = 1 /\ status[1] = "exited" /\ pending = {}

\* C14: once a stop() call has stopped the endpoint (it took the handle and has
\* returned), the endpoint is never running again.
C14_NoRestart == (stopped /\ stop_pc = "idle") => ~IsRunning

\* the positions of a produce() run inside its loop
InLoop == {"loop", "set_response", "set_event", "yield"}

\* C15: a produce() run inside its loop terminates once its stop signal is
\* set, and once its child has exited (its output reaches end of input).
C15_ProduceTerminates ==
    \A k \in Runs :
        /\ (rpc[k] \in InLoop /\ stopEv[k]) ~> (rpc[k] = "done")
        /\ (rpc[k] \in InLoop /\ status[rproc[k]] = "exited") ~> (rpc[k] = "done")

\* C16: the messages a produce() run has yielded are JSON objects its child
\* wrote, in the order of their positions on the child's output: every
\* yielded message stands later on the wire than the one yielded before it
\* (so none is yielded twice).
C16_YieldInOrder ==
    \A k \in Runs :
        /\ \A i \in 1..Len(yielded[k]) :
              /\ yielded[k][i].kind = "object"
              /\ yielded[k][i].n \in 1..nlines
        /\ \A i, j \in 1..Len(yielded[k]) : i < j => yielded[k][i].n < yielded[k][j].n

\* the first and the third line were yielded, in that order; the second line,
\* not a JSON object, was skipped
C16_Witness ==
    /\ Len(yielded[1]) = 2
    /\ yielded[1][1].n = 1 /\ yielded[1][2].n = 3
    /\ stdout[1] = <<>>

\* the StreamHandles handed out by io.stream() whose stop event is not set
LiveHandles == {h \in Handles : h <= nhandles /\ ~hstop[h]}

\* C17: at most one StreamHandle is live at any time; with no start() or
\* stop() in progress and no handle held, the endpoint is not running; while
\* a handle is held no step starts the endpoint or opens a stream, and a
\* start() that finds a handle returns leaving handle, process and streams as
\* they were.
C17_OneHandle ==
    /\ [](/\ Cardinality(LiveHandles) <= 1
          /\ (svc_pc = "idle" /\ handle = 0) => ~IsRunning)
    /\ [][/\ handle # 0 => (nprocs' = nprocs /\ nhandles' = nhandles)
          /\ (svc_out' = "noop" /\ svc_out # "noop") =>
                (handle # 0 /\ UNCHANGED <<procVars, handle, nhandles, hstop, start_out>>)]_vars

\* a start() has just returned without doing anything: the service holds the
\* handle of its second session, the handle of the first one is signalled
C17_Witness ==
    /\ svc_out = "noop" /\ svc_pc = "idle"
    /\ handle = 2 /\ nhandles = 2 /\ hstop[1] /\ ~hstop[2] /\ IsRunning

\* C18: a stream's stop event is set only by stop(), as its last step, for the
\* handle it captured, after the handle reference was cleared and the endpoint
\* stopped (no process handle, the child of that stream terminated); stop()
\* enters the endpoint's stop() only after clearing the reference; a stop()
\* that captured no handle stops the endpoint and sets no event.
C18_StopOrder ==
    [][/\ hstop' # hstop =>
             /\ svc_pc = "ep_stop" /\ stop_pc = "idle" /\ svc_h # 0
             /\ handle = 0 /\ proc = 0 /\ status[svc_h] = "exited"
             /\ hstop' = [hstop EXCEPT ![svc_h] = TRUE]
       /\ (stop_pc = "called" /\ stop_pc' # "called") => handle = 0
       /\ (svc_pc = "ep_stop" /\ svc_pc' = "idle") =>
             (proc = 0 /\ handle' = 0 /\ (svc_h = 0 => hstop' = hstop))]_vars

\* after a stop() that signalled handle 1, a further stop(), which found no
\* handle, has run the endpoint's stop() and is about to return
C18_Witness ==
    /\ hstop[1] /\ svc_pc = "ep_stop" /\ svc_h = 0 /\ stop_pc = "idle"
    /\ handle = 0 /\ proc = 0

\* C19: request_async() hands work to the task runner only while the service
\* holds a StreamHandle, and a send() or request_async() that fails with the
\* not-running error has written nothing and scheduled nothing.
C19_NotRunningGuard ==
    /\ ra_out = "scheduled" => ra_held
    /\ ra_out = "not_running" => ra_pc = "done"
    /\ ss_out = "not_running" => snd_pc = "idle"

\* C20: the handler invocations made are exactly those due: one per message
\* whose type is a string with a handler registered at lookup time, made on
\* the handler registered last for that type, with the whole message, in
\* delivery order; at most the invocation of the message in hand is
\* outstanding; a message with no type, a non-string type or no handler adds
\* no invocation.
C20_Dispatch ==
    /\ d_pc = "idle" => calls = expected
    /\ Len(calls) <= Len(expected) /\ Len(expected) <= Len(calls) + 1
    /\ \A i \in 1..Len(calls) :
          /\ calls[i] = expected[i]
          /\ IsStr(calls[i].msg.type) /\ calls[i].msg.value \in 1..nmsgs
    /\ \A i, j \in 1..Len(calls) : i < j => calls[i].msg.value < calls[j].msg.value

\* handler 1, then handler 2 were registered for type 1; of two messages the
\* first, of type 1, went to handler 2 once and the second, whose type is not
\* a string, went nowhere
C20_Witness ==
    /\ Len(regs) >= 2
    /\ regs[1] = [op |-> "register", t |-> 1, h |-> 1]
    /\ regs[2] = [op |-> "register", t |-> 1, h |-> 2]
    /\ d_pc = "idle" /\ nmsgs = 2
    /\ calls = <<[h |-> 2, msg |-> Msg(Str(1), 1)]>>
    /\ d_msg = Msg(NonStr, 2)

\* C21: the stream worker holds the service lock only between taking it and
\* the lookup, never when it calls or executes a handler; so while a handler
\* executes and no other thread is inside start(), stop() or send(), a call
\* of register_handler, unregister_handler, stop or send (by the handler or
\* by another thread) can take the lock.
C21_HandlerUnlocked ==
    /\ d_lock => d_pc = "locked"
    /\ (d_pc = "handler" /\ svc_pc = "idle") =>
          /\ Len(regs) < MaxRegs =>
                /\ \A t \in MsgTypes : ENABLED UnregisterHandler(t)
                /\ \A t \in MsgTypes, h \in HandlerIds : ENABLED RegisterHandler(t, h)
          /\ stop_pc = "idle" => ENABLED SvcStopTake
          /\ ss_out = "none" => ENABLED SvcSendEnsure

\* while the handler of a message executes, a register_handler call made
\* after it was entered has completed and a stop() is inside the lock
C21_Witness ==
    /\ d_pc = "handler" /\ d_h # 0
    /\ Len(regs) > d_at
    /\ svc_pc = "ep_stop"

\* C22: a stop() entered from a stream callback runs to its end with the
\* handle cleared: its endpoint.stop() empties the table with every entry's
\* event set, and when it returns the service holds no handle, the endpoint
\* has no process handle and is not running; a send() or request_async() that
\* makes its check while no handle is held fails with the not-running error;
\* the callback then returns.
C22_CallbackStops ==
    /\ [][/\ (cb_pc = "stopping" /\ stop_pc = "resolve" /\ stop_pc' = "terminate") =>
                /\ pending' = {}
                /\ \A r \in pending : slot'[r].event /\ slot'[r].response = StoppedPayload
          /\ (cb_pc = "stopping" /\ svc_pc = "ep_stop" /\ svc_pc' = "idle") =>
                (handle' = 0 /\ proc' = 0 /\ ~IsRunning' /\ ~ServiceRunning')
          /\ (cb_pc = "stopping" /\ svc_pc = "ep_stop") => handle' = 0
          /\ (handle = 0 /\ ss_out = "none" /\ ss_out' # "none") => ss_out' = "not_running"
          /\ (handle = 0 /\ ra_pc = "idle" /\ ra_pc' # "idle") => ra_out' = "not_running"
          /\ cb_pc = "returned" => cb_pc' = "returned"]_vars
    /\ [](cb_pc = "returned" => cb_kind \in {"error", "complete"})

\* a stream error was reported while a request was waiting: the callback has
\* returned, the request was resolved with the stopped payload, the stream is
\* signalled, the child terminated, and a later send() and request_async()
\* failed with not-running
C22_Witness ==
    /\ cb_pc = "returned" /\ cb_kind = "error"
    /\ handle = 0 /\ proc = 0 /\ hstop[1] /\ status[1] = "exited"
    /\ result[1] = StoppedPayload
    /\ ss_out = "not_running" /\ ra_out = "not_running"

\* C23: every reply() call emits exactly one line, a JSON object: when the
\* original carries a string id, the line is the message with reply_to set to
\* that id and nothing else changed, otherwise the line is the message as
\* passed; the message object is left as passed; and a request() that returns
\* in the echo scenario returns an object whose reply_to is the id it stamped.
C23_ReplyStamps ==
    /\ Len(emitted) = nlines
    /\ \A i \in 1..Len(emitted) :
          LET e == emitted[i] IN
          /\ e.out.kind = "object" /\ e.out.n = i /\ e.after = e.message
          /\ IsStr(e.req_id) => (e.out.rt = e.req_id /\ e.out.n = e.message.n
                                 /\ e.out.kind = e.message.kind)
          /\ ~IsStr(e.req_id) => e.out = e.message
    /\ \A r \in ReqIds :
          outcome[r] = "returned" =>
             /\ result[r].kind = "object" /\ result[r].rt = Str(r)
             /\ \E i \in 1..Len(emitted) : emitted[i].out = result[r]

\* request 1 returned the reply the child stamped with its id over a message
\* that carried a non-string reply_to; the answer to a send() without a string
\* id went out as passed and was yielded to the consumer
C23_Witness ==
    /\ outcome[1] = "returned" /\ result[1].rt = Str(1)
    /\ \E i \in 1..Len(emitted) :
          emitted[i].out = result[1] /\ emitted[i].message.rt = NonStr
    /\ \E i \in 1..Len(emitted) :
          /\ emitted[i].req_id = NonStr /\ emitted[i].out.rt = Absent
          /\ \E j \in 1..Len(yielded[1]) : yielded[1][j] = emitted[i].out

\* the parts a send() call has put on the pipe of child p
PartsOf(w, p) == {i \in 1..Len(wire[p]) : wire[p][i].w = w}

\* C24: at most one send() call is inside the write at a time, and it holds
\* the write lock; on every pipe the parts come in pairs, the head of a line
\* directly followed by the tail of the same line, except for a last head
\* whose writer is still inside the write or failed on a child that exited;
\* a send() that succeeded has put exactly one line on the pipe of the
\* process it captured, and a send() that raised before writing has put none.
C24_WholeLines ==
    /\ Cardinality({w \in Writers : w_pc[w] \in {"locked", "mid"}}) <= 1
    /\ \A w \in Writers : w_pc[w] \in {"locked", "mid"} => wlock = w
    /\ \A p \in Procs : \A i \in 1..Len(wire[p]) :
          IF i % 2 = 1
          THEN /\ wire[p][i].part = "head"
               /\ i = Len(wire[p]) => w_pc[wire[p][i].w] \in {"mid", "failed"}
          ELSE wire[p][i] = Chunk(wire[p][i - 1].w, "tail")
    /\ \A w \in Writers :
          /\ w_pc[w] = "done" =>
                /\ Cardinality(PartsOf(w, w_proc[w])) = 2
                /\ \A p \in Procs \ {w_proc[w]} : PartsOf(w, p) = {}
          /\ w_pc[w] \in {"idle", "encoded", "locked", "raised"} =>
                \A p \in Procs : PartsOf(w, p) = {}

\* three concurrent send() calls: one has written its line, one is between
\* the two parts of its line holding the lock, one waits for the lock
C24_Witness ==
    /\ \E a, b, c \in Writers :
          /\ w_pc[a] = "done" /\ w_pc[b] = "mid" /\ w_pc[c] = "encoded"
          /\ wlock = b
          /\ wire[1] = <<Chunk(a, "head"), Chunk(a, "tail"), Chunk(b, "head")>>

\* C25: a slot whose wait signal is set holds a response; no request() call
\* fails the assertion of line 133; and what a call returns is one of the two
\* synthetic failure payloads or a message the reader read from the child
\* whose reply_to is the call's own id.
C25_CorrelationSafe ==
    \A r \in ReqIds :
        /\ slot[r].event => slot[r].response # NoneResp
        /\ pc[r] = "read" => slot[r].response # NoneResp
        /\ outcome[r] # "assertion"
        /\ outcome[r] = "returned" =>
              \/ result[r] \in {StoppedPayload, ClosedPayload}
              \/ /\ result[r].kind = "object" /\ result[r].rt = Str(r)
                 /\ \E e \in Entries : e.msg = result[r] /\ e.hit = r

\* one call returned the child's reply to its own id, the other, resolved by
\* stop(), returned the stopped payload
C25_Witness ==
    /\ outcome[1] = "returned" /\ result[1].kind = "object" /\ result[1].rt = Str(1)
    /\ outcome[2] = "returned" /\ result[2] = StoppedPayload

\* request r was written to the stdin of child p
SentTo(r, p) == \E i \in 1..Len(stdin[p]) : stdin[p][i] = r

\* stop() has taken the handle of child p
StoppedProc(p) == p <= nprocs /\ proc # p

\* a produce() run reading child p has reached its end, or the stream over p
\* was told to stop
RunOver(p) ==
    \/ \E k \in Runs : rproc[k] = p /\ (rpc[k] \in {"cleanup", "done"} \/ stopEv[k])
    \/ hstop[p]

\* C26: a request already written to child p is given a synthetic failure
\* payload, or taken out of the table by a shutdown path, only if stop() has
\* taken p, or a produce() run reading p has reached its end or the stream
\* over p was told to stop.
C26_SessionIsolation ==
    [][\A r \in ReqIds : \A p \in Procs :
          (/\ SentTo(r, p)
           /\ \/ /\ slot'[r].response \in {StoppedPayload, ClosedPayload}
                 /\ slot'[r].response # slot[r].response
              \/ r \in pending /\ r \notin pending' /\ pc'[r] = pc[r])
          => (StoppedProc(p) \/ RunOver(p))]_vars

====
